---- MODULE Spec2Model ----
(***************************************************************************)
(* Model of AIspeech.py: the AudioRecorder capture loop (a QTimer-driven   *)
(* tick reading one chunk from a PyAudio stream), the toggle handler of    *)
(* SpeechRecognitionApp, and the ListenWorker thread that loops            *)
(* listen -> recognize -> append user message -> chat completion.          *)
(*                                                                         *)
(* Threads: the UI thread runs toggle_listening and the timer slots, each  *)
(* to completion (Qt event loop); every ListenWorker.run is a thread of    *)
(* its own, cut into steps at its blocking calls.                          *)
(***************************************************************************)
EXTENDS Integers, Sequences, FiniteSets, TLC

(* ------------------------------ bounds -------------------------------- *)
\* Number of times listening may be switched on (one worker thread each).
MaxSessions == 2
\* Longest conversation history explored.
MaxMessages == 4

(* ------------------------- program constants -------------------------- *)
\* CHUNK, the frame size (1024 in the source), scaled to the smallest size
\* whose half-spectrum has more than one bin and whose DFT is exact.
CHUNK == 4

None == "None"

\* Sample frames a read may return (int16 samples, CHUNK of them).
Frames == { <<0, 0, 0, 0>>, <<1, 0, -1, 2>>, <<-3, 1, 1, 1>> }

\* Recognised utterances and backend replies, as token sequences.  The
\* speaker's n-th recognised utterance says n, so that every user message of
\* a history can be told from the others.
Utterance(n) == <<"utterance", n>>
Replies == { <<"hi">> }

\* The persona string send_to_chatglm prepends to the stored reply.
words == <<"persona">>

Workers == 1..MaxSessions

VARIABLES
  is_listening,    \* SpeechRecognitionApp.is_listening
  toggleRaised,    \* the last toggle_listening call ended by raising
  stream,          \* AudioRecorder.stream: "none" | "open" | "closed"
  is_recording,    \* AudioRecorder.is_recording
  timerActive,     \* AudioRecorder.timer is running
  connections,     \* number of update_plots slots connected to timer.timeout
  pa_terminated,   \* AudioRecorder.pyaudio_instance.terminate() was called
  deviceAvailable, \* an input device was usable at the latest start_recording
  waveform_curve,  \* data last set on the waveform curve
  spectrum_curve,  \* data last set on the spectrum curve
  tickLog,         \* sink deliveries and reads of the latest timer timeout
  lastCall,        \* the AudioRecorder method called last
  nThreads,        \* number of ListenWorker threads started so far
  pc,              \* position of each ListenWorker thread
  text,            \* each worker's local `text`
  outcome,         \* how the detector iteration a worker is finishing ended
  request,         \* messages argument of each worker's outstanding call
  messages,        \* the global conversation history
  response_area,   \* replies appended to the response area
  uiWriters,       \* contexts that have mutated a widget
  nSubmit,         \* utterances submitted (user message appended)
  nChatFail,       \* chat-completion calls that raised
  pending,         \* workers with a submitted, unanswered utterance, oldest first
  inOrder          \* every reply so far answered the oldest pending utterance

recVars == <<stream, is_recording, timerActive, connections, pa_terminated>>
sinkVars == <<waveform_curve, spectrum_curve, tickLog>>
workerVars == <<nThreads, pc, text, outcome, request>>
chatVars == <<messages, response_area, nSubmit, nChatFail, pending, inOrder>>
vars == <<is_listening, toggleRaised, recVars, deviceAvailable, sinkVars, lastCall,
          workerVars, chatVars, uiWriters>>

(* --------------------------- SpectralAnalyzer ------------------------- *)
\* cos and sin of j quarter turns: the twiddle factors of a CHUNK-point DFT.
CosT(j) == CASE j % 4 = 0 -> 1 [] j % 4 = 1 -> 0 [] j % 4 = 2 -> -1 [] OTHER -> 0
SinT(j) == CASE j % 4 = 0 -> 0 [] j % 4 = 1 -> 1 [] j % 4 = 2 -> 0 [] OTHER -> -1

RECURSIVE SumRe(_, _, _)
SumRe(frame, k, n) ==
  IF n = 0 THEN 0
  ELSE SumRe(frame, k, n - 1) + frame[n] * CosT(k * (n - 1))

RECURSIVE SumIm(_, _, _)
SumIm(frame, k, n) ==
  IF n = 0 THEN 0
  ELSE SumIm(frame, k, n - 1) - frame[n] * SinT(k * (n - 1))

\* The spectrum taken without np.abs: the real part of bin k.
MagSq_real_part(frame, k) == SumRe(frame, k, Len(frame))

\* Squared magnitude of DFT bin k; the magnitude np.abs returns is its root,
\* kept here by the exact integer under the root.
MagSq(frame, k) ==
  LET re == SumRe(frame, k, Len(frame))
      im == SumIm(frame, k, Len(frame))
  IN re * re + im * im

\* np.abs(np.fft.fft(audio_data))[: CHUNK // 2]
fft_data(frame) ==
  [i \in 1..(IF Len(frame) < CHUNK \div 2 THEN Len(frame) ELSE CHUNK \div 2)
     |-> MagSq(frame, i - 1)]

(* ----------------------------- AudioRecorder -------------------------- *)
\* What stream.read(CHUNK) gives: a frame, or an exception.
ReadError == [ok |-> FALSE, data |-> <<>>]
ReadOutcomes == {[ok |-> TRUE, data |-> f] : f \in Frames} \cup {ReadError}

\* Whether pyaudio_instance.open can succeed: never without a usable input
\* device; on an instance terminate() was called on, either way (it depends
\* on whether another PyAudio instance keeps PortAudio initialised).
OpenOutcomes(avail, terminated) ==
  IF ~avail THEN {FALSE}
  ELSE IF terminated THEN {TRUE, FALSE}
  ELSE {TRUE}

Recorder ==
  [stream |-> stream, is_recording |-> is_recording, timerActive |-> timerActive,
   connections |-> connections, pa_terminated |-> pa_terminated, raised |-> FALSE]

\* start_recording without its `if self.is_recording: return`.
start_recording_unguarded(r, opened) ==
  IF ~opened THEN [r EXCEPT !.raised = TRUE]
  ELSE [r EXCEPT !.stream = "open", !.is_recording = TRUE,
                 !.connections = @ + 1, !.timerActive = TRUE]

\* start_recording raising the flag, connecting and starting the timer before
\* the open, so that a failed open leaves them behind.
start_recording_flag_first(r, opened) ==
  IF r.is_recording THEN r
  ELSE IF ~opened
    THEN [r EXCEPT !.raised = TRUE, !.is_recording = TRUE,
                   !.connections = @ + 1, !.timerActive = TRUE]
  ELSE [r EXCEPT !.stream = "open", !.is_recording = TRUE,
                 !.connections = @ + 1, !.timerActive = TRUE]

\* AudioRecorder.start_recording; opened: the outcome of pyaudio_instance.open.
start_recording(r, opened) ==
  IF r.is_recording THEN r
  ELSE IF ~opened THEN [r EXCEPT !.raised = TRUE]
  ELSE [r EXCEPT !.stream = "open", !.is_recording = TRUE,
                 !.connections = @ + 1, !.timerActive = TRUE]

\* AudioRecorder.stop_recording
stop_recording(r) ==
  IF ~r.is_recording THEN r
  ELSE [r EXCEPT !.is_recording = FALSE, !.timerActive = FALSE,
                 !.stream = IF @ = "none" THEN @ ELSE "closed",
                 !.pa_terminated = TRUE]

SetRecorder(r) ==
  /\ stream' = r.stream
  /\ is_recording' = r.is_recording
  /\ timerActive' = r.timerActive
  /\ connections' = r.connections
  /\ pa_terminated' = r.pa_terminated

Sinks == [wave |-> waveform_curve, spec |-> spectrum_curve, log |-> <<>>]

\* update_plots plotting the (empty) data of a failed read instead of
\* skipping the tick.
\* AudioRecorder.update_plots, one slot invocation; read: what stream.read gives.
update_plots(s, recording, strm, read) ==
  IF ~recording THEN s
  ELSE IF strm # "open" \/ ~read.ok
    THEN [s EXCEPT !.log = Append(@, [op |-> "read", on |-> strm, data |-> <<>>])]
  ELSE LET audio_data == read.data
           fft == fft_data(audio_data)
       IN [wave |-> audio_data,
           spec |-> fft,
           log |-> s.log \o << [op |-> "read", on |-> strm, data |-> audio_data],
                               [op |-> "waveform", on |-> strm, data |-> audio_data],
                               [op |-> "spectrum", on |-> strm, data |-> fft] >>]

\* One timeout of AudioRecorder.timer: every connected slot runs in turn.
RECURSIVE RunSlots(_, _, _, _, _)
RunSlots(s, recording, strm, reads, i) ==
  IF i > Len(reads) THEN s
  ELSE RunSlots(update_plots(s, recording, strm, reads[i]), recording, strm, reads, i + 1)

TimerTimeout ==
  /\ timerActive
  /\ \E reads \in [1..connections -> ReadOutcomes] :
       LET s == RunSlots(Sinks, is_recording, stream, reads, 1) IN
         /\ waveform_curve' = s.wave
         /\ spectrum_curve' = s.spec
         /\ tickLog' = s.log
  /\ lastCall' = "update_plots"
  /\ UNCHANGED <<is_listening, toggleRaised, recVars, deviceAvailable, workerVars,
                 chatVars, uiWriters>>

\* Direct calls of the recorder's methods (the class on its own).
RecStart ==
  /\ is_recording \/ connections < MaxSessions
  /\ \E avail \in BOOLEAN : \E opened \in OpenOutcomes(avail, pa_terminated) :
       /\ SetRecorder(start_recording(Recorder, opened))
       /\ deviceAvailable' = avail
  /\ lastCall' = "start_recording"
  /\ UNCHANGED <<is_listening, toggleRaised, sinkVars, workerVars, chatVars, uiWriters>>

RecStop ==
  /\ SetRecorder(stop_recording(Recorder))
  /\ lastCall' = "stop_recording"
  /\ UNCHANGED <<is_listening, toggleRaised, deviceAvailable, sinkVars, workerVars,
                 chatVars, uiWriters>>

(* -------------------------- SpeechRecognitionApp ---------------------- *)
\* toggle_listening, branch `if not self.is_listening`: the flag is set and the
\* worker thread is started before start_recording runs, so an exception
\* raised by the open leaves both behind.
ToggleOn ==
  /\ ~is_listening
  /\ nThreads < MaxSessions
  /\ is_listening' = TRUE
  /\ uiWriters' = uiWriters \cup {"ui"}
  /\ nThreads' = nThreads + 1
  /\ pc' = [pc EXCEPT ![nThreads + 1] = "start"]
  /\ \E avail \in BOOLEAN : \E opened \in OpenOutcomes(avail, pa_terminated) :
       LET r == start_recording(Recorder, opened) IN
         /\ SetRecorder(r)
         /\ toggleRaised' = r.raised
         /\ deviceAvailable' = avail
  /\ lastCall' = "start_recording"
  /\ UNCHANGED <<sinkVars, text, outcome, request, chatVars>>

\* toggle_listening, branch `else`.
ToggleOff ==
  /\ is_listening
  /\ is_listening' = FALSE
  /\ uiWriters' = uiWriters \cup {"ui"}
  /\ SetRecorder(stop_recording(Recorder))
  /\ toggleRaised' = FALSE
  /\ lastCall' = "stop_recording"
  /\ UNCHANGED <<deviceAvailable, sinkVars, workerVars, chatVars>>

(* ------------------------------ ListenWorker -------------------------- *)
\* Sequence q without its entries equal to w.
Without(q, w) == SelectSeq(q, LAMBDA x : x # w)

DetectorOutcomes ==
  {"success", "WaitTimeoutError", "UnknownValueError", "RequestError", "Exception"}
FailureOutcomes == DetectorOutcomes \ {"success"}

\* run() with `except sr.RequestError` ending the loop.
AfterOutcome_request_error_ends(o) ==
  CASE o = "success" -> "dispatch"
    [] o = "RequestError" -> "exited"
    [] OTHER -> "check"

\* run() testing the flag again after the detector call and dropping the
\* utterance of a session that was stopped meanwhile.
AfterOutcome_drops_when_idle(o) ==
  IF o = "success" /\ is_listening THEN "dispatch" ELSE "check"

\* Where run() continues after one pass through the try body up to line 457.
AfterOutcome(o) == IF o = "success" THEN "dispatch" ELSE "check"

\* The user message put in front of the history instead of at its end.
AppendUser_in_front(ms, t) == <<[role |-> "user", content |-> t]>> \o ms

\* messages.append({"role": "user", "content": text})
AppendUser(ms, t) == Append(ms, [role |-> "user", content |-> t])

\* The user message appended before recognition has succeeded.
MessagesAfter_any_outcome(ms, o, t) == AppendUser(ms, t)

\* The history after one detector iteration with outcome o.
MessagesAfter(ms, o, t) == IF o = "success" THEN AppendUser(ms, t) ELSE ms

\* messages=messages: the whole list is the argument of the completion call.
ChatPayload(ms) == ms

\* The raw reply stored, without the persona string.
AppendAssistant_raw(ms, reply) ==
  Append(ms, [role |-> "assistant", content |-> reply])

\* messages.append({"role": "assistant", "content": words + reply})
AppendAssistant(ms, reply) ==
  Append(ms, [role |-> "assistant", content |-> words \o reply])

\* `with self.microphone as source`: entering the shared microphone opens
\* its input stream, which can fail; the failure leaves run() as an exception.
\* (Re-entry by a second worker is refused only by an assert in
\* Microphone.__enter__, unsynchronised and absent under -O, so a second
\* worker may fail here or proceed.)
WorkerEnter(w) ==
  /\ pc[w] = "start"
  /\ \E opened \in BOOLEAN :
       pc' = [pc EXCEPT ![w] = IF opened THEN "calibrate" ELSE "crashed"]
  /\ UNCHANGED <<is_listening, toggleRaised, recVars, deviceAvailable, sinkVars, lastCall,
                 nThreads, text, outcome, request, chatVars, uiWriters>>

\* adjust_for_ambient_noise(source), outside the try: a failure unwinds the
\* with block and leaves run().
WorkerCalibrate(w) ==
  /\ pc[w] = "calibrate"
  /\ \E ok \in BOOLEAN :
       pc' = [pc EXCEPT ![w] = IF ok THEN "check" ELSE "crashed"]
  /\ UNCHANGED <<is_listening, toggleRaised, recVars, deviceAvailable, sinkVars, lastCall,
                 nThreads, text, outcome, request, chatVars, uiWriters>>

\* `while self.parent.is_listening`
WorkerCheck(w) ==
  /\ pc[w] = "check"
  /\ pc' = [pc EXCEPT ![w] = IF is_listening THEN "listen" ELSE "exited"]
  /\ outcome' = [outcome EXCEPT ![w] = None]
  /\ UNCHANGED <<is_listening, toggleRaised, recVars, deviceAvailable, sinkVars, lastCall,
                 nThreads, text, request, chatVars, uiWriters>>

\* listen + recognize_google resolve with outcome o; on success the widgets
\* are updated and the user message appended, otherwise the matching except
\* clause runs.
WorkerDetect(w) ==
  /\ pc[w] = "listen"
  /\ \E o \in DetectorOutcomes :
     LET t == Utterance(nSubmit + 1) IN
       /\ o = "success" => Len(messages) + 2 <= MaxMessages
       /\ pc' = [pc EXCEPT ![w] = AfterOutcome(o)]
       /\ text' = [text EXCEPT ![w] = IF o = "success" THEN t ELSE @]
       /\ outcome' = [outcome EXCEPT ![w] = o]
       /\ messages' = MessagesAfter(messages, o, t)
       /\ nSubmit' = IF o = "success" THEN nSubmit + 1 ELSE nSubmit
       /\ pending' = IF o = "success" THEN Append(pending, w) ELSE pending
       /\ uiWriters' = IF o = "UnknownValueError" THEN uiWriters
                       ELSE uiWriters \cup {"listen"}
  /\ UNCHANGED <<is_listening, toggleRaised, recVars, deviceAvailable, sinkVars, lastCall,
                 nThreads, request, response_area, nChatFail, inOrder>>

\* asyncio.run(self.send_to_chatglm(text)) up to the completion call being
\* issued with messages=messages.
WorkerDispatch(w) ==
  /\ pc[w] = "dispatch"
  /\ pc' = [pc EXCEPT ![w] = "chat"]
  /\ request' = [request EXCEPT ![w] = ChatPayload(messages)]
  /\ UNCHANGED <<is_listening, toggleRaised, recVars, deviceAvailable, sinkVars, lastCall,
                 nThreads, text, outcome, chatVars, uiWriters>>

\* The completion call returns a reply: send_to_chatglm appends the assistant
\* message and updates the response area; asyncio.run returns to the loop.
WorkerChatReply(w) ==
  /\ pc[w] = "chat"
  /\ \E reply \in Replies :
       /\ messages' = AppendAssistant(messages, reply)
       /\ response_area' = Append(response_area, reply)
  /\ pending' = Without(pending, w)
  /\ inOrder' = (inOrder /\ pending[1] = w)
  /\ uiWriters' = uiWriters \cup {"listen"}
  /\ pc' = [pc EXCEPT ![w] = "check"]
  /\ request' = [request EXCEPT ![w] = <<>>]
  /\ text' = [text EXCEPT ![w] = <<>>]
  /\ UNCHANGED <<is_listening, toggleRaised, recVars, deviceAvailable, sinkVars, lastCall,
                 nThreads, outcome, nSubmit, nChatFail>>

\* A failed completion call issued again for the same utterance.
WorkerChatFail_retries(w) ==
  /\ pc[w] = "chat"
  /\ nChatFail' = nChatFail + 1
  /\ uiWriters' = uiWriters \cup {"listen"}
  /\ pc' = [pc EXCEPT ![w] = "dispatch"]
  /\ request' = [request EXCEPT ![w] = <<>>]
  /\ UNCHANGED <<is_listening, toggleRaised, recVars, deviceAvailable, sinkVars, lastCall,
                 nThreads, text, outcome, messages, response_area, nSubmit,
                 pending, inOrder>>

\* The completion call raises: asyncio.run re-raises inside the try body and
\* `except Exception` reports it.
WorkerChatFail(w) ==
  /\ pc[w] = "chat"
  /\ nChatFail' = nChatFail + 1
  /\ pending' = Without(pending, w)
  /\ uiWriters' = uiWriters \cup {"listen"}
  /\ pc' = [pc EXCEPT ![w] = "check"]
  /\ request' = [request EXCEPT ![w] = <<>>]
  /\ text' = [text EXCEPT ![w] = <<>>]
  /\ UNCHANGED <<is_listening, toggleRaised, recVars, deviceAvailable, sinkVars, lastCall,
                 nThreads, outcome, messages, response_area, nSubmit, inOrder>>

(* ---------------------------- specifications -------------------------- *)
Init ==
  /\ is_listening = FALSE
  /\ toggleRaised = FALSE
  /\ stream = "none"
  /\ is_recording = FALSE
  /\ timerActive = FALSE
  /\ connections = 0
  /\ pa_terminated = FALSE
  /\ deviceAvailable = TRUE
  /\ waveform_curve = <<>>
  /\ spectrum_curve = <<>>
  /\ tickLog = <<>>
  /\ lastCall = None
  /\ nThreads = 0
  /\ pc = [w \in Workers |-> "unborn"]
  /\ text = [w \in Workers |-> <<>>]
  /\ outcome = [w \in Workers |-> None]
  /\ request = [w \in Workers |-> <<>>]
  /\ messages = <<>>
  /\ response_area = <<>>
  /\ uiWriters = {}
  /\ nSubmit = 0
  /\ nChatFail = 0
  /\ pending = <<>>
  /\ inOrder = TRUE

\* The listen session: the toggle handler and the worker threads.  The timer
\* slot is left to SpecRec: it reads and writes only the recorder's stream and
\* the two curves, which no worker reads.
Next ==
  \/ ToggleOn
  \/ ToggleOff
  \/ \E w \in Workers : WorkerEnter(w)
  \/ \E w \in Workers : WorkerCalibrate(w)
  \/ \E w \in Workers : WorkerCheck(w)
  \/ \E w \in Workers : WorkerDetect(w)
  \/ \E w \in Workers : WorkerDispatch(w)
  \/ \E w \in Workers : WorkerChatReply(w)
  \/ \E w \in Workers : WorkerChatFail(w)

Spec == Init /\ [][Next]_vars

\* The AudioRecorder on its own: its methods called in any order, and the
\* timer firing while it runs.
NextRec == RecStart \/ RecStop \/ TimerTimeout

SpecRec == Init /\ [][NextRec]_vars

\* The capture loop under the toggle handler: toggles and timer timeouts in
\* any interleaving (both run on the UI thread, each to completion).
NextCapture == ToggleOn \/ ToggleOff \/ TimerTimeout

SpecCapture == Init /\ [][NextCapture]_vars

(* -------------------------------- claims ------------------------------ *)
Live(w) == pc[w] \in {"start", "calibrate", "check", "listen", "dispatch", "chat"}
RecognitionFailures == {"WaitTimeoutError", "UnknownValueError", "RequestError"}
IsPrefix(a, b) == Len(a) <= Len(b) /\ SubSeq(b, 1, Len(a)) = a
UserMessage(t) == [role |-> "user", content |-> t]

\* C1: while a chat-completion call is outstanding, the listen loop that
\* issued it is not held up by it: it is at its loop head or in the detector,
\* free to run the next detector cycle.
C1_LoopNotBlockedByBackendCall ==
  \A w \in Workers : request[w] # <<>> => pc[w] \in {"check", "listen"}

\* C2: after a start from Idle whose open of the audio input failed,
\* ListeningState is Idle, the capture loop is not running (no timer, no open
\* channel) and no listen thread is running.
C2_FailedStartLeavesIdle ==
  toggleRaised =>
    /\ ~is_listening
    /\ ~is_recording /\ ~timerActive /\ stream # "open"
    /\ \A w \in Workers : ~Live(w)

\* C3: a detector iteration that ends in a timeout, an unintelligible result
\* or a recognition request error while listening does not end the loop (the
\* worker returns to the loop head), and from the loop head, still
\* listening, the worker's next step starts the next detector iteration.
C3_FailureOutcomeContinues ==
  [][\A w \in Workers :
       /\ (pc[w] = "listen" /\ pc'[w] # "listen"
             /\ outcome'[w] \in RecognitionFailures)
            => pc'[w] = "check"
       /\ (pc[w] = "check" /\ outcome[w] \in RecognitionFailures
             /\ is_listening /\ pc'[w] # "check")
            => pc'[w] = "listen"]_vars

\* C3 witness: a worker back at its loop head after a recognition failure,
\* the session still listening.
C3_Witness ==
  \E w \in Workers :
    pc[w] = "check" /\ outcome[w] \in RecognitionFailures /\ is_listening

\* C4: no failure of a step of the listen thread escapes run(): the thread
\* never ends by an exception.
C4_NoFailureEscapesRun ==
  \A w \in Workers : pc[w] # "crashed"

\* C5: once toggle() has moved a worker's session to Idle, that worker starts
\* no further detector cycle: from its loop head it can only exit.
SessionEnded(w) == pc[w] # "unborn" /\ (~is_listening \/ w < nThreads)
C5_EndedSessionStartsNoCycle ==
  [][\A w \in Workers :
       (SessionEnded(w) /\ pc[w] = "check") => pc'[w] \in {"check", "exited"}]_vars

\* C6: when N utterances have been submitted and all have completed with a
\* reply, the replies arriving in submission order, the history has length
\* 2N and its roles alternate, starting with user.
C6_CompletedTurnsAlternate ==
  (nChatFail = 0 /\ inOrder /\ pending = <<>>) =>
    /\ Len(messages) = 2 * nSubmit
    /\ \A i \in 1..Len(messages) :
         messages[i].role = IF i % 2 = 1 THEN "user" ELSE "assistant"

\* C7: in every step the previous history is a prefix of the new one.
C7_HistoryAppendOnly ==
  [][IsPrefix(messages, messages')]_vars

\* C7 witness: a history grown over a failed backend call, a completed turn
\* and a stop of the session.
C7_Witness ==
  Len(messages) >= 3 /\ nChatFail > 0 /\ ~is_listening

\* C8: a successful recognition appends the user message before the backend
\* is invoked, and the backend is invoked with the whole history of that
\* moment, whose last element is the user message of that utterance.
C8_WholeHistorySent ==
  [][\A w \in Workers :
       /\ (pc[w] = "listen" /\ pc'[w] = "dispatch")
            => /\ messages' = Append(messages, UserMessage(text'[w]))
               /\ request'[w] = <<>>
       /\ (pc[w] = "dispatch" /\ pc'[w] = "chat")
            => /\ request'[w] = messages
               /\ Len(messages) >= 1
               /\ messages[Len(messages)] = UserMessage(text[w])]_vars

\* C9: start_recording on a running recorder, and stop_recording on one that
\* is not running, change neither the channel, the timer, the recording flag
\* nor ListeningState.
C9_RedundantCallIsNoOp ==
  [][/\ (lastCall' = "start_recording" /\ is_recording)
          => UNCHANGED <<recVars, is_listening>>
     /\ (lastCall' = "stop_recording" /\ ~is_recording)
          => UNCHANGED <<recVars, is_listening>>]_vars

\* C9 witness: start_recording was called on the running recorder (the one
\* start that connected a slot came before a timer tick, the call after it).
C9_Witness ==
  /\ lastCall = "start_recording" /\ is_recording
  /\ connections = 1 /\ tickLog # <<>>

\* C10: a detector iteration ending in a timeout, an unintelligible result or
\* a recognition request error appends no message, dispatches no backend
\* call and leaves ListeningState as it was.
C10_FailureOutcomeHasNoEffect ==
  [][\A w \in Workers :
       (pc[w] = "listen" /\ pc'[w] # "listen"
          /\ outcome'[w] \in RecognitionFailures)
         => /\ messages' = messages
            /\ nSubmit' = nSubmit
            /\ request' = request
            /\ pc'[w] \notin {"dispatch", "chat"}
            /\ is_listening' = is_listening]_vars

\* C10 witness: a recognition failure handled with a non-empty history.
C10_Witness ==
  \E w \in Workers :
    /\ pc[w] = "check" /\ outcome[w] \in RecognitionFailures
    /\ Len(messages) > 0

\* C11: when the chat-completion call for an utterance fails, no assistant
\* message is appended and the utterance's user message stays in the history,
\* the call is not issued again (the worker returns to its loop head with no
\* request), and from the loop head, still listening, the worker's next step
\* starts the next detector iteration.
C11_ChatFailureAbsorbed ==
  [][\A w \in Workers :
       /\ (pc[w] = "chat" /\ pc'[w] # "chat" /\ nChatFail' # nChatFail)
            => /\ messages' = messages
               /\ \E i \in 1..Len(messages') : messages'[i] = UserMessage(text[w])
               /\ pc'[w] = "check"
               /\ request'[w] = <<>>
       /\ (pc[w] = "check" /\ is_listening /\ pc'[w] # "check")
            => pc'[w] = "listen"]_vars

\* C11 witness: after a failed call the history ends with the unanswered user
\* message and the worker is in its next detector iteration.
C11_Witness ==
  /\ nChatFail > 0 /\ Len(messages) = 1 /\ messages[1].role = "user"
  /\ \E w \in Workers : pc[w] = "listen"

\* C12: a timer timeout in which a frame read fails delivers nothing to
\* either sink (no waveform or spectrum call is made and both curves stay as
\* they were), and the capture loop stays running: flag, timer and channel
\* are unchanged.
FailedRead(e) == e.op = "read" /\ e.data = <<>>
C12_ReadFailureAbsorbed ==
  [][(lastCall' = "update_plots" /\ \E i \in 1..Len(tickLog') : FailedRead(tickLog'[i]))
       => /\ UNCHANGED recVars
          /\ \A i \in 1..Len(tickLog') : tickLog'[i].op = "read"
          /\ UNCHANGED <<waveform_curve, spectrum_curve>>]_vars

\* C13: no widget is mutated from a context other than the UI thread.
C13_UiMutatedOnlyByUiThread ==
  uiWriters \subseteq {"ui"}

\* C14: at most one listen thread is live at any time, and no two
\* chat-completion calls are outstanding together.
C14_OneListenUnit ==
  /\ Cardinality({w \in Workers : Live(w)}) <= 1
  /\ Cardinality({w \in Workers : pc[w] = "chat"}) <= 1

\* C15: a start_recording call on a recorder that is not running, with an
\* input device available, opens the channel and starts the timer.
C15_StartOpensChannel ==
  [][(lastCall' = "start_recording" /\ ~is_recording /\ deviceAvailable')
       => (is_recording' /\ stream' = "open" /\ timerActive')]_vars

\* C16: the spectrum set on the spectrum curve has CHUNK \div 2 entries, none
\* negative, and is all zero when the frame it was computed from is.
C16_SpectrumWellFormed ==
  spectrum_curve # <<>> =>
    /\ Len(waveform_curve) = CHUNK
    /\ spectrum_curve = fft_data(waveform_curve)
    /\ Len(spectrum_curve) = CHUNK \div 2
    /\ \A i \in 1..Len(spectrum_curve) : spectrum_curve[i] >= 0
    /\ (\A n \in 1..CHUNK : waveform_curve[n] = 0)
         => \A i \in 1..Len(spectrum_curve) : spectrum_curve[i] = 0

\* C16 witness: the all-zero frame was plotted in a timeout that also read a
\* frame that is not silent.
C16_Witness ==
  /\ Len(waveform_curve) = CHUNK
  /\ \A n \in 1..CHUNK : waveform_curve[n] = 0
  /\ spectrum_curve = <<0, 0>>
  /\ \E i \in 1..Len(tickLog) :
       tickLog[i].op = "spectrum" /\ tickLog[i].data # <<0, 0>>

\* C17: on a reply the assistant message appended is the persona string
\* followed by the reply, and the response area is given the reply alone.
C17_PersonaStoredRawShown ==
  [][\A w \in Workers :
       (pc[w] = "chat" /\ pc'[w] # "chat" /\ nChatFail' = nChatFail)
         => \E reply \in Replies :
              /\ messages' =
                   Append(messages, [role |-> "assistant", content |-> words \o reply])
              /\ words \o reply # reply
              /\ response_area' = Append(response_area, reply)]_vars

\* C17 witness: a reply has been stored and shown.
C17_Witness ==
  /\ response_area # <<>>
  /\ Len(messages) >= 2 /\ messages[Len(messages)].role = "assistant"

\* C18: a timer timeout reads exactly one frame, and when the read succeeds
\* delivers the frame and then its spectrum, each once.
Reads(log) == {i \in 1..Len(log) : log[i].op = "read"}
C18_OneFramePerTick ==
  lastCall = "update_plots" =>
    /\ Cardinality(Reads(tickLog)) = 1
    /\ Len(tickLog) \in {1, 3}
    /\ Len(tickLog) = 3 =>
         /\ tickLog[2] = [op |-> "waveform", on |-> "open", data |-> tickLog[1].data]
         /\ tickLog[3].op = "spectrum"

\* C19: every read of a timer timeout is made on the open channel, never on
\* one that was released or never opened.
C19_ReadsOnlyOpenChannel ==
  \A i \in 1..Len(tickLog) : tickLog[i].op = "read" => tickLog[i].on = "open"

\* C19 witness: a read made in a session started after an earlier one was
\* stopped (the earlier channel released, a new one open).
C19_Witness ==
  /\ pa_terminated /\ connections = 2 /\ lastCall = "update_plots"
  /\ \E i \in 1..Len(tickLog) : tickLog[i].op = "read"

\* C20: an utterance recognised after the session was toggled to Idle is
\* still processed in full (user message appended, then the call dispatched);
\* a worker leaves its loop only from the loop head; and with the session
\* Idle and no listen thread live the history does not change.
C20_InFlightUtteranceProcessed ==
  [][/\ \A w \in Workers :
          /\ (pc[w] = "listen" /\ pc'[w] # "listen" /\ outcome'[w] = "success")
               => /\ pc'[w] = "dispatch"
                  /\ messages' = Append(messages, UserMessage(text'[w]))
          /\ (pc[w] = "dispatch" /\ pc'[w] # "dispatch") => pc'[w] = "chat"
          /\ (pc[w] # "exited" /\ pc'[w] = "exited")
               => (pc[w] = "check" /\ ~is_listening)
     /\ (~is_listening /\ ~is_listening' /\ \A w \in Workers : ~Live(w))
          => messages' = messages]_vars

\* C20 witness: a call outstanding for an utterance of a session that is
\* already Idle and was never restarted.
C20_Witness ==
  /\ ~is_listening /\ nThreads = 1
  /\ pc[1] = "chat" /\ request[1] # <<>>

====
